---- MODULE Spec2Model ----
(***************************************************************************)
(* A model of network_analyzer.py: the NetworkAnalyzer object, its five    *)
(* collection steps, its five display sections, and the two route parsers. *)
(* A Python str is modelled as the sequence of its code points, and parsed *)
(* character by character, the way str.split, str.strip, str.startswith,   *)
(* re.split and re.match do.  Values the program only compares for         *)
(* equality and never reads or prints (the platform tag, the names of      *)
(* exceptions, the keys of its own dicts) are TLA+ strings.                *)
(***************************************************************************)
EXTENDS Integers, Sequences, FiniteSets, TLC

(***************************************************************************)
(* Bounds of the model.                                                    *)
(***************************************************************************)
\* the longest text given to a parser has this many lines
MaxLines == 2
\* collect_all_info is called at most this many times on one object
MaxCollects == 2

(***************************************************************************)
(* The str literals of the source.  Every literal of network_analyzer.py   *)
(* is made of "\n" and of printable ASCII characters other than the grave  *)
(* accent.                                                                 *)
(***************************************************************************)
\* the characters with the code points 32 to 95, in that order
Printable ==
    " !\"#$%&'()*+,-./0123456789:;<=>?@ABCDEFGHIJKLMNOPQRSTUVWXYZ[\\]^_"

\* the characters with the code points 97 to 126, in that order
Lowercase == "abcdefghijklmnopqrstuvwxyz{|}~"

\* the characters a literal is made of, each a TLA+ string of length 1
Characters ==
    {"\t", "\n", "\f", "\r"}
    \cup {SubSeq(Printable, i, i) : i \in 1..Len(Printable)}
    \cup {SubSeq(Lowercase, i, i) : i \in 1..Len(Lowercase)}

\* ord(c) of each of these characters
Ord ==
    [c \in Characters |->
        IF c = "\t" THEN 9
        ELSE IF c = "\n" THEN 10
        ELSE IF c = "\f" THEN 12
        ELSE IF c = "\r" THEN 13
        ELSE IF \E i \in 1..Len(Printable) : SubSeq(Printable, i, i) = c
        THEN 31 + (CHOOSE i \in 1..Len(Printable) : SubSeq(Printable, i, i) = c)
        ELSE 96 + (CHOOSE i \in 1..Len(Lowercase) : SubSeq(Lowercase, i, i) = c)]

\* the str a literal denotes: its code points, [ord(c) for c in literal]
Text(literal) == [i \in 1..Len(literal) |-> Ord[SubSeq(literal, i, i)]]

\* the str literals of network_analyzer.py that the model spells out, the
\* fill character of str.center, and the pieces of the messages of
\* subprocess.CalledProcessError
Literals ==
    {"", " ", "\n", "-", "=", "l",
     "0.0.0.0", "default", "N/A",
     "route print", "netstat -rn", "arp -a", "arp -n", "ipconfig /all",
     "cat /etc/resolv.conf",
     "Unsupported operating system",
     "Error getting ARP table: ", "Error getting DNS info: ", "\nError: ",
     "NETWORK INFORMATION TOOL", "ROUTING TABLE", "NETWORK INTERFACES",
     "DEFAULT GATEWAYS", "ARP TABLE", "DNS INFORMATION",
     "Destination", "Gateway", "Netmask", "Interface", "Metric/Flags",
     "IP Address", "MAC Address", "Broadcast", "Type", "Gateway IP",
     "IPv4", "IPv6",
     "No interface information available", "No gateway information available",
     "Command '", "' returned non-zero exit status ", "' died with <Signals.",
     "' died with unknown signal ", ": ", ">.", "."}

\* the str each of these literals denotes
Literal == [literal \in Literals |-> Text(literal)]

(***************************************************************************)
(* Python's text primitives, as the parsers use them.                      *)
(***************************************************************************)
Char(s, i) == s[i]

\* the code points str.isspace() holds of, which str.strip() removes and
\* which are the class \s of re on a str pattern: \t \n \x0b \x0c \r,
\* \x1c..\x1f, space, \x85, \xa0, U+1680, U+2000..U+200A, U+2028, U+2029,
\* U+202F, U+205F, U+3000
Whitespace ==
    (9..13) \cup (28..32) \cup {133, 160, 5760} \cup (8192..8202)
    \cup {8232, 8233, 8239, 8287, 12288}

IsSpace(c) == c \in Whitespace

\* the code points of the digits zero of the scripts of Unicode: each is
\* followed by the script's digits one to nine (general category Nd)
DigitZeros ==
    {48, 1632, 1776, 1984, 2406, 2534, 2662, 2790, 2918, 3046, 3174, 3302,
     3430, 3558, 3664, 3792, 3872, 4160, 4240, 6112, 6160, 6470, 6608, 6784,
     6800, 6992, 7088, 7232, 7248, 42528, 43216, 43264, 43472, 43504, 43600,
     44016, 65296, 66720, 68912, 69734, 69872, 69942, 70096, 70384, 70736,
     70864, 71248, 71360, 71472, 71904, 72016, 72784, 73040, 73120, 92768,
     92864, 93008, 120782, 120792, 120802, 120812, 120822, 123200, 123632,
     125264, 130032}

\* the class \d of re on a str pattern: every decimal digit of Unicode
Digits == UNION {zero..(zero + 9) : zero \in DigitZeros}

Newline == {Ord["\n"]}

\* a scan to the right: the first position from i on whose character is in
\* `class` (inside = TRUE) or is not in it (inside = FALSE), and Len(s) + 1
\* when there is none
Scan(s, i, class, inside) ==
    CHOOSE j \in i..(Len(s) + 1) :
        /\ j = Len(s) + 1 \/ (Char(s, j) \in class) = inside
        /\ \A k \in i..(j - 1) : (Char(s, k) \in class) # inside

\* a scan to the left: the last position up to j whose character is in
\* `class` or is not in it, and 0 when there is none
ScanBack(s, j, class, inside) ==
    CHOOSE i \in 0..j :
        /\ i = 0 \/ (Char(s, i) \in class) = inside
        /\ \A k \in (i + 1)..j : (Char(s, k) \in class) # inside

\* str.startswith(prefix)
StartsWith(s, prefix) ==
    /\ Len(s) >= Len(prefix)
    /\ SubSeq(s, 1, Len(prefix)) = prefix

\* str.strip(): whitespace removed at both ends
Strip(s) ==
    SubSeq(s, Scan(s, 1, Whitespace, FALSE), ScanBack(s, Len(s), Whitespace, FALSE))

\* str.split('\n'): the pieces between newlines, empty pieces kept
RECURSIVE SplitFrom(_, _)
SplitFrom(s, start) ==
    LET end == Scan(s, start, Newline, TRUE)
    IN  <<SubSeq(s, start, end - 1)>> \o
        (IF end > Len(s) THEN <<>> ELSE SplitFrom(s, end + 1))

SplitLines(s) == SplitFrom(s, 1)

\* re.split(r'\s+', s): the pieces between maximal runs of whitespace,
\* empty pieces kept (a leading or trailing run gives an empty piece)
RECURSIVE ReSplitFrom(_, _)
ReSplitFrom(s, start) ==
    LET end == Scan(s, start, Whitespace, TRUE)
    IN  <<SubSeq(s, start, end - 1)>> \o
        (IF end > Len(s) THEN <<>> ELSE ReSplitFrom(s, Scan(s, end, Whitespace, FALSE)))

ReSplit(s) == ReSplitFrom(s, 1)

\* re.match(r'^\d+\.\d+\.\d+\.\d+', s) is not None: n groups of digits
\* from position i on, with a dot between two groups
RECURSIVE MatchGroups(_, _, _)
MatchGroups(s, i, n) ==
    LET e == Scan(s, i, Digits, FALSE)
    IN  IF e = i THEN FALSE
        ELSE IF n = 1 THEN TRUE
        ELSE /\ e <= Len(s)
             /\ Char(s, e) = Ord["."]
             /\ MatchGroups(s, e + 1, n - 1)

MatchDottedQuad(s) == MatchGroups(s, 1, 4)

(***************************************************************************)
(* The route parsers.                                                      *)
(***************************************************************************)
\* routes.insert(0, record) in place of routes.append(record)
RoutesAppend_Insert(routes, record) == <<record>> \o routes

\* routes.append(record)
RoutesAppend(routes, record) == Append(routes, record)

\* the loop body with len(parts) >= 4 in place of len(parts) >= 5
WindowsRouteLine_Min4(routes, rawline) ==
    LET line == Strip(rawline)
    IN  IF StartsWith(line, Literal["0.0.0.0"])
        THEN LET parts == ReSplit(line)
             IN  IF Len(parts) >= 4
                 THEN RoutesAppend(routes,
                        [Destination |-> parts[1],
                         Netmask     |-> parts[2],
                         Gateway     |-> parts[3],
                         Interface   |-> parts[4],
                         Metric      |-> IF Len(parts) > 4 THEN parts[5] ELSE Literal[""]])
                 ELSE routes
        ELSE routes

\* the loop body with the netmask and the gateway taken from each other's
\* token
WindowsRouteLine_Swapped(routes, rawline) ==
    LET line == Strip(rawline)
    IN  IF StartsWith(line, Literal["0.0.0.0"])
        THEN LET parts == ReSplit(line)
             IN  IF Len(parts) >= 5
                 THEN RoutesAppend(routes,
                        [Destination |-> parts[1],
                         Netmask     |-> parts[3],
                         Gateway     |-> parts[2],
                         Interface   |-> parts[4],
                         Metric      |-> IF Len(parts) > 4 THEN parts[5] ELSE Literal[""]])
                 ELSE routes
        ELSE routes

\* the body of parse_windows_route's loop for one line of the text
WindowsRouteLine(routes, rawline) ==
    LET line == Strip(rawline)
    IN  IF StartsWith(line, Literal["0.0.0.0"])
        THEN LET parts == ReSplit(line)
             IN  IF Len(parts) >= 5
                 THEN RoutesAppend(routes,
                        [Destination |-> parts[1],
                         Netmask     |-> parts[2],
                         Gateway     |-> parts[3],
                         Interface   |-> parts[4],
                         Metric      |-> IF Len(parts) > 4 THEN parts[5] ELSE Literal[""]])
                 ELSE routes
        ELSE routes

RECURSIVE WindowsLoop(_, _, _)
WindowsLoop(lines, i, routes) ==
    IF i > Len(lines) THEN routes
    ELSE WindowsLoop(lines, i + 1, WindowsRouteLine(routes, lines[i]))

parse_windows_route(output) == WindowsLoop(SplitLines(output), 1, <<>>)

\* the loop body with the interface taken from the last token, parts[-1]
UnixRouteLine_LastToken(routes, rawline) ==
    LET line == Strip(rawline)
    IN  IF StartsWith(line, Literal["default"]) \/ StartsWith(line, Literal["0.0.0.0"])
        THEN LET parts == ReSplit(line)
             IN  IF Len(parts) >= 4
                 THEN RoutesAppend(routes,
                        [Destination |-> IF parts[1] = Literal["default"] THEN Literal["default"] ELSE parts[1],
                         Gateway     |-> parts[2],
                         Genmask     |-> IF Len(parts) > 2 THEN parts[3] ELSE Literal[""],
                         Flags       |-> IF Len(parts) > 3 THEN parts[4] ELSE Literal[""],
                         Interface   |-> IF Len(parts) > 5 THEN parts[Len(parts)] ELSE Literal[""]])
                 ELSE routes
        ELSE IF MatchDottedQuad(line)
        THEN LET parts == ReSplit(line)
             IN  IF Len(parts) >= 5
                 THEN RoutesAppend(routes,
                        [Destination |-> parts[1],
                         Gateway     |-> parts[2],
                         Genmask     |-> parts[3],
                         Flags       |-> parts[4],
                         Interface   |-> IF Len(parts) > 5 THEN parts[Len(parts)] ELSE Literal[""]])
                 ELSE routes
        ELSE routes

\* the loop body with `if` in place of `elif`: a line Case A has handled is
\* looked at by Case B as well
UnixRouteLine_BothCases(routes, rawline) ==
    LET line == Strip(rawline)
        afterA ==
            IF StartsWith(line, Literal["default"]) \/ StartsWith(line, Literal["0.0.0.0"])
            THEN LET parts == ReSplit(line)
                 IN  IF Len(parts) >= 4
                     THEN RoutesAppend(routes,
                            [Destination |-> IF parts[1] = Literal["default"] THEN Literal["default"] ELSE parts[1],
                             Gateway     |-> parts[2],
                             Genmask     |-> IF Len(parts) > 2 THEN parts[3] ELSE Literal[""],
                             Flags       |-> IF Len(parts) > 3 THEN parts[4] ELSE Literal[""],
                             Interface   |-> IF Len(parts) > 5 THEN parts[6] ELSE Literal[""]])
                     ELSE routes
            ELSE routes
    IN  IF MatchDottedQuad(line)
        THEN LET parts == ReSplit(line)
             IN  IF Len(parts) >= 5
                 THEN RoutesAppend(afterA,
                        [Destination |-> parts[1],
                         Gateway     |-> parts[2],
                         Genmask     |-> parts[3],
                         Flags       |-> parts[4],
                         Interface   |-> IF Len(parts) > 5 THEN parts[6] ELSE Literal[""]])
                 ELSE afterA
        ELSE afterA

\* the body of parse_unix_route's loop for one line of the text
UnixRouteLine(routes, rawline) ==
    LET line == Strip(rawline)
    IN  IF StartsWith(line, Literal["default"]) \/ StartsWith(line, Literal["0.0.0.0"])
        THEN LET parts == ReSplit(line)
             IN  IF Len(parts) >= 4
                 THEN RoutesAppend(routes,
                        [Destination |-> IF parts[1] = Literal["default"] THEN Literal["default"] ELSE parts[1],
                         Gateway     |-> parts[2],
                         Genmask     |-> IF Len(parts) > 2 THEN parts[3] ELSE Literal[""],
                         Flags       |-> IF Len(parts) > 3 THEN parts[4] ELSE Literal[""],
                         Interface   |-> IF Len(parts) > 5 THEN parts[6] ELSE Literal[""]])
                 ELSE routes
        ELSE IF MatchDottedQuad(line)
        THEN LET parts == ReSplit(line)
             IN  IF Len(parts) >= 5
                 THEN RoutesAppend(routes,
                        [Destination |-> parts[1],
                         Gateway     |-> parts[2],
                         Genmask     |-> parts[3],
                         Flags       |-> parts[4],
                         Interface   |-> IF Len(parts) > 5 THEN parts[6] ELSE Literal[""]])
                 ELSE routes
        ELSE routes

RECURSIVE UnixLoop(_, _, _)
UnixLoop(lines, i, routes) ==
    IF i > Len(lines) THEN routes
    ELSE UnixLoop(lines, i + 1, UnixRouteLine(routes, lines[i]))

parse_unix_route(output) == UnixLoop(SplitLines(output), 1, <<>>)

(***************************************************************************)
(* Python values.  A list is tagged "list" and a dict holding an error is  *)
(* tagged "dict", which is what isinstance(x, dict) looks at.  A dict that *)
(* is iterated is a sequence of key/value pairs in insertion order.        *)
(***************************************************************************)
List(items) == [type |-> "list", items |-> items]

ErrorDict(message) == [type |-> "dict", error |-> message]

\* Python's None, where a str is expected: a value that is no str, since no
\* code point is negative
NoneValue == <<-1>>

\* d.get(key, default) on a dict kept as a sequence of pairs
RECURSIVE DictGetFrom(_, _, _, _)
DictGetFrom(d, key, default, i) ==
    IF i > Len(d) THEN default
    ELSE IF d[i].key = key THEN d[i].value
    ELSE DictGetFrom(d, key, default, i + 1)

DictGet(d, key, default) == DictGetFrom(d, key, default, 1)

\* d[key] = value: replaces the value of a key that is present, else appends
DictSet(d, key, value) ==
    IF \E i \in 1..Len(d) : d[i].key = key
    THEN [i \in 1..Len(d) |-> IF d[i].key = key THEN [key |-> key, value |-> value] ELSE d[i]]
    ELSE Append(d, [key |-> key, value |-> value])

(***************************************************************************)
(* The command runner: subprocess.check_output(cmd, shell=True) followed   *)
(* by .decode('utf-8', 'ignore').  What the child process does is the      *)
(* environment's choice: it exits 0 with some bytes, or it fails.          *)
(***************************************************************************)
\* the bytes of a command's output: runs of valid UTF-8, given as the text
\* they encode, or an invalid byte
Valid(text) == [valid |-> TRUE, text |-> text]
InvalidByte == [valid |-> FALSE]

\* bytes.decode('utf-8', 'ignore'): invalid bytes are dropped
RECURSIVE Decode(_)
Decode(raw) ==
    IF raw = <<>> THEN Literal[""]
    ELSE (IF Head(raw).valid THEN Head(raw).text ELSE Literal[""]) \o Decode(Tail(raw))

\* signal.Signals: the names of the signals 1 to 31, as Linux numbers them
SignalNames ==
    <<"SIGHUP", "SIGINT", "SIGQUIT", "SIGILL", "SIGTRAP", "SIGABRT", "SIGBUS",
      "SIGFPE", "SIGKILL", "SIGUSR1", "SIGSEGV", "SIGUSR2", "SIGPIPE",
      "SIGALRM", "SIGTERM", "SIGSTKFLT", "SIGCHLD", "SIGCONT", "SIGSTOP",
      "SIGTSTP", "SIGTTIN", "SIGTTOU", "SIGURG", "SIGXCPU", "SIGXFSZ",
      "SIGVTALRM", "SIGPROF", "SIGWINCH", "SIGIO", "SIGPWR", "SIGSYS">>

\* signal.Signals(n).name for every n that is a member of the enumeration
Signals ==
    [n \in DOMAIN SignalNames \cup {34, 64} |->
        IF n = 34 THEN "SIGRTMIN" ELSE IF n = 64 THEN "SIGRTMAX" ELSE SignalNames[n]]

\* str(e) of the CalledProcessError that check_output raises: a negative
\* return code is the number of the signal that killed the child
CalledProcessError(cmd, status) ==
    IF status < 0
    THEN IF -status \in DOMAIN Signals
         THEN Literal["Command '"] \o cmd \o Literal["' died with <Signals."]
                \o Text(Signals[-status]) \o Literal[": "]
                \o Text(ToString(-status)) \o Literal[">."]
         ELSE Literal["Command '"] \o cmd \o Literal["' died with unknown signal "]
                \o Text(ToString(-status)) \o Literal["."]
    ELSE Literal["Command '"] \o cmd \o Literal["' returned non-zero exit status "]
           \o Text(ToString(status)) \o Literal["."]

WindowsRoutePrint ==
    <<Valid(Text("Network Destination  Netmask  Gateway  Interface  Metric\n")),
      Valid(Text("  0.0.0.0  0.0.0.0  192.168.1.1  192.168.1.100  25\n")),
      InvalidByte,
      Valid(Text("  127.0.0.0  255.0.0.0  On-link  127.0.0.1  331\n"))>>

NetstatRn ==
    <<Valid(Text("Destination  Gateway  Genmask  Flags  MSS  Window  irtt  Iface\n")),
      Valid(Text("0.0.0.0  192.168.1.1  0.0.0.0  UG  0  0  0  eth0\n")),
      Valid(Text("192.168.1.0  0.0.0.0  255.255.255.0  U  0  0  0  eth0\n"))>>

ArpOutput == <<Valid(Text("? (192.168.1.1) at aa:bb:cc:dd:ee:ff [ether] on eth0\n"))>>

ResolvConf == <<Valid(Text("nameserver 192.168.1.1\n"))>>

\* the return codes of a child process that fails: it exits with status 1,
\* or it is killed by SIGTERM
FailStatuses == {1, -15}

\* what a child process may do: exit 0 after writing one of these outputs,
\* or fail
ProcessOutcomes(outputs) ==
    {[ok |-> TRUE, raw |-> r] : r \in outputs}
    \cup {[ok |-> FALSE, status |-> s] : s \in FailStatuses}

RouteOutcomes == ProcessOutcomes({<<>>, WindowsRoutePrint, NetstatRn})
ArpOutcomes == ProcessOutcomes({ArpOutput})
DnsOutcomes == ProcessOutcomes({ResolvConf})

\* one call of check_output(cmd).decode(): the text, or the exception's message
CheckOutput(cmd, outcome) ==
    IF outcome.ok
    THEN [cmd |-> cmd, ok |-> TRUE, text |-> Decode(outcome.raw)]
    ELSE [cmd |-> cmd, ok |-> FALSE, text |-> CalledProcessError(cmd, outcome.status)]

(***************************************************************************)
(* The route table service.  Each operator returns the value the method    *)
(* returns and the commands it ran, in order.                              *)
(***************************************************************************)
get_windows_routing_table(outcome) ==
    LET run == CheckOutput(Literal["route print"], outcome)
    IN  [result |-> IF run.ok THEN List(parse_windows_route(run.text))
                    ELSE ErrorDict(run.text),
         ran |-> <<run>>]

\* get_unix_routing_table running the command a second time when it failed
get_unix_routing_table_Retry(outcome) ==
    LET run == CheckOutput(Literal["netstat -rn"], outcome)
    IN  [result |-> IF run.ok THEN List(parse_unix_route(run.text))
                    ELSE ErrorDict(run.text),
         ran |-> IF run.ok THEN <<run>> ELSE <<run, run>>]

get_unix_routing_table(outcome) ==
    LET run == CheckOutput(Literal["netstat -rn"], outcome)
    IN  [result |-> IF run.ok THEN List(parse_unix_route(run.text))
                    ELSE ErrorDict(run.text),
         ran |-> <<run>>]

\* get_routing_table taking every platform that is not Windows for a Unix
get_routing_table_ElseUnix(sys, outcome) ==
    IF sys = "Windows" THEN get_windows_routing_table(outcome)
    ELSE get_unix_routing_table(outcome)

get_routing_table(sys, outcome) ==
    IF sys = "Windows" THEN get_windows_routing_table(outcome)
    ELSE IF sys \in {"Linux", "Darwin"} THEN get_unix_routing_table(outcome)
    ELSE [result |-> ErrorDict(Literal["Unsupported operating system"]), ran |-> <<>>]

\* get_arp_table returning the exception's message alone
get_arp_table_Bare(sys, outcome) ==
    LET run == CheckOutput(IF sys = "Windows" THEN Literal["arp -a"] ELSE Literal["arp -n"],
                           outcome)
    IN  [result |-> run.text, ran |-> <<run>>]

get_arp_table(sys, outcome) ==
    LET run == CheckOutput(IF sys = "Windows" THEN Literal["arp -a"] ELSE Literal["arp -n"],
                           outcome)
    IN  [result |-> IF run.ok THEN run.text
                    ELSE Literal["Error getting ARP table: "] \o run.text,
         ran |-> <<run>>]

get_dns_info(sys, outcome) ==
    LET run == CheckOutput(IF sys = "Windows" THEN Literal["ipconfig /all"]
                           ELSE Literal["cat /etc/resolv.conf"], outcome)
    IN  [result |-> IF run.ok THEN run.text
                    ELSE Literal["Error getting DNS info: "] \o run.text,
         ran |-> <<run>>]

(***************************************************************************)
(* Interface and gateway enumeration (the netifaces library).  What the    *)
(* library answers is the environment's choice.  ifaddresses(name) answers *)
(* a dict from address family to a list of address dicts, or raises.       *)
(***************************************************************************)
InetFull ==
    [addr |-> Text("192.168.1.100"), netmask |-> Text("255.255.255.0"),
     broadcast |-> Text("192.168.1.255")]
InetNoBroadcast == [addr |-> Text("127.0.0.1"), netmask |-> Text("255.0.0.0")]
InetNoNetmask == [addr |-> Text("10.8.0.2")]
LinkAddr == [addr |-> Text("aa:bb:cc:dd:ee:ff")]

IfaddressesOutcomes ==
    {[raises |-> "", addrs |-> [AF_INET |-> <<InetFull>>, AF_LINK |-> <<LinkAddr>>]],
     [raises |-> "", addrs |-> [AF_INET |-> <<InetNoBroadcast>>]],
     [raises |-> "", addrs |-> [AF_LINK |-> <<LinkAddr>>]],
     [raises |-> "", addrs |-> [AF_INET |-> <<InetNoNetmask>>, AF_LINK |-> <<LinkAddr>>]],
     [raises |-> "ValueError"],
     [raises |-> "OSError"]}

\* netifaces.interfaces() raises, or answers names; ifaddresses answers per name
InterfacesOutcomes ==
    {[raises |-> "OSError"], [raises |-> "", names |-> <<>>]}
    \cup {[raises |-> "", names |-> <<Text("eth0")>>, ifaddresses |-> <<o>>] :
            o \in IfaddressesOutcomes}

\* the body of get_interface_details' loop for one interface: the exception
\* that leaves the try block ("" when none does) and the dict afterwards
InterfaceEntry(interfaces, interface, outcome) ==
    IF outcome.raises # "" THEN [raises |-> outcome.raises, interfaces |-> interfaces]
    ELSE LET addrs == outcome.addrs
         IN  IF "AF_INET" \notin DOMAIN addrs THEN [raises |-> "", interfaces |-> interfaces]
             ELSE IF Len(addrs.AF_INET) = 0
             THEN [raises |-> "IndexError", interfaces |-> interfaces]
             ELSE LET inet == addrs.AF_INET[1]
                  IN  IF "addr" \notin DOMAIN inet \/ "netmask" \notin DOMAIN inet
                      THEN [raises |-> "KeyError", interfaces |-> interfaces]
                      ELSE IF "AF_LINK" \in DOMAIN addrs /\ Len(addrs.AF_LINK) = 0
                      THEN [raises |-> "IndexError", interfaces |-> interfaces]
                      ELSE IF "AF_LINK" \in DOMAIN addrs /\ "addr" \notin DOMAIN addrs.AF_LINK[1]
                      THEN [raises |-> "KeyError", interfaces |-> interfaces]
                      ELSE [raises |-> "",
                            interfaces |-> DictSet(interfaces, interface,
                               [IP        |-> inet.addr,
                                Netmask   |-> inet.netmask,
                                MAC       |-> IF "AF_LINK" \in DOMAIN addrs
                                              THEN addrs.AF_LINK[1].addr ELSE NoneValue,
                                Broadcast |-> IF "broadcast" \in DOMAIN inet
                                              THEN inet.broadcast ELSE Literal["N/A"]])]

\* except (ValueError, KeyError): continue
CaughtInLoop == {"ValueError", "KeyError"}

\* the loop of get_interface_details: ifaddresses(env.names[i]) answers
\* env.ifaddresses[i]
RECURSIVE InterfaceLoop(_, _, _)
InterfaceLoop(env, i, interfaces) ==
    IF i > Len(env.names) THEN [raises |-> "", result |-> interfaces]
    ELSE LET entry == InterfaceEntry(interfaces, env.names[i], env.ifaddresses[i])
         IN  IF entry.raises \in CaughtInLoop THEN InterfaceLoop(env, i + 1, interfaces)
             ELSE IF entry.raises # "" THEN [raises |-> entry.raises, result |-> interfaces]
             ELSE InterfaceLoop(env, i + 1, entry.interfaces)

\* get_interface_details(): the exception that escapes it ("" when none
\* does) and the dict it returns
get_interface_details(env) ==
    IF env.raises # "" THEN [raises |-> env.raises, result |-> <<>>]
    ELSE InterfaceLoop(env, 1, <<>>)

\* netifaces.gateways() raises, or answers a dict that may hold 'default'
GatewaysOutcomes ==
    {[raises |-> "OSError"],
     [raises |-> "", value |-> <<>>],
     [raises |-> "", value |-> <<[key |-> "default", value |-> <<>>]>>],
     [raises |-> "", value |->
        <<[key |-> "default",
           value |-> <<[key |-> "AF_INET",
                        value |-> <<Text("192.168.1.1"), Text("eth0")>>]>>],
          [key |-> "AF_INET",
           value |-> <<<<Text("192.168.1.1"), Text("eth0"), TRUE>>>>]>>]}

\* netifaces.gateways().get('default', {})
get_gateway_info(outcome) ==
    IF outcome.raises # "" THEN [raises |-> outcome.raises, result |-> <<>>]
    ELSE [raises |-> "", result |-> DictGet(outcome.value, "default", <<>>)]

(***************************************************************************)
(* The state of one NetworkAnalyzer object and of the process that uses    *)
(* it.                                                                     *)
(***************************************************************************)
VARIABLES
    system,             \* self.system
    routing_table,      \* self.routing_table
    interface_details,  \* self.interface_details
    arp_table,          \* self.arp_table
    dns_info,           \* self.dns_info
    gateway_info,       \* self.gateway_info
    pc,                 \* where the process is: the statement it runs next
    collects,           \* how many times collect_all_info was called
    steps,              \* the steps the current collect_all_info call has run
    ran,                \* the commands the current collect_all_info call has run
    printed,            \* what display_all_info has printed
    output,             \* the text handed to a parser called on its own
    routes              \* what that parser returned

vars == <<system, routing_table, interface_details, arp_table, dns_info,
          gateway_info, pc, collects, steps, ran, printed, output, routes>>

object == <<system, routing_table, interface_details, arp_table, dns_info, gateway_info>>

\* what platform.system() may answer
Platforms == {"Windows", "Linux", "Darwin", "FreeBSD", "linux", ""}

\* NetworkAnalyzer.__init__
Init ==
    /\ system \in Platforms
    /\ interface_details = <<>>
    /\ routing_table = List(<<>>)
    /\ arp_table = Literal[""]
    /\ dns_info = Literal[""]
    /\ gateway_info = <<>>
    /\ pc = "idle"
    /\ collects = 0
    /\ steps = <<>>
    /\ ran = <<>>
    /\ printed = <<>>
    /\ output = Literal[""]
    /\ routes = <<>>

(***************************************************************************)
(* collect_all_info, one action per statement.  An exception that no       *)
(* statement catches leaves the method and ends the process.               *)
(***************************************************************************)
\* the statements of collect_all_info, in the order it runs them
CollectOrder ==
    <<"routing_table", "interface_details", "arp_table", "dns_info", "gateway_info">>

\* the statement that follows statement `at` of a method, or `after` when
\* `at` is its last one
Following(order, at, after) ==
    LET i == CHOOSE k \in 1..Len(order) : order[k] = at
    IN  IF i = Len(order) THEN after ELSE order[i + 1]

CallCollectAllInfo ==
    /\ pc = "idle"
    /\ collects < MaxCollects
    /\ collects' = collects + 1
    /\ steps' = <<>>
    /\ ran' = <<>>
    /\ pc' = CollectOrder[1]
    /\ UNCHANGED <<object, printed, output, routes>>

CollectRoutingTable ==
    /\ pc = "routing_table"
    /\ \E outcome \in RouteOutcomes :
         LET call == get_routing_table(system, outcome)
         IN  /\ routing_table' = call.result
             /\ ran' = ran \o call.ran
    /\ steps' = Append(steps, "routing_table")
    /\ pc' = Following(CollectOrder, "routing_table", "idle")
    /\ UNCHANGED <<system, interface_details, arp_table, dns_info, gateway_info,
                   collects, printed, output, routes>>

CollectInterfaceDetails ==
    /\ pc = "interface_details"
    /\ \E env \in InterfacesOutcomes :
         LET call == get_interface_details(env)
         IN  IF call.raises # ""
             THEN /\ pc' = "raised"
                  /\ UNCHANGED interface_details
             ELSE /\ pc' = Following(CollectOrder, "interface_details", "idle")
                  /\ interface_details' = call.result
    /\ steps' = Append(steps, "interface_details")
    /\ UNCHANGED <<system, routing_table, arp_table, dns_info, gateway_info,
                   collects, ran, printed, output, routes>>

CollectArpTable ==
    /\ pc = "arp_table"
    /\ \E outcome \in ArpOutcomes :
         LET call == get_arp_table(system, outcome)
         IN  /\ arp_table' = call.result
             /\ ran' = ran \o call.ran
    /\ steps' = Append(steps, "arp_table")
    /\ pc' = Following(CollectOrder, "arp_table", "idle")
    /\ UNCHANGED <<system, routing_table, interface_details, dns_info, gateway_info,
                   collects, printed, output, routes>>

CollectDnsInfo ==
    /\ pc = "dns_info"
    /\ \E outcome \in DnsOutcomes :
         LET call == get_dns_info(system, outcome)
         IN  /\ dns_info' = call.result
             /\ ran' = ran \o call.ran
    /\ steps' = Append(steps, "dns_info")
    /\ pc' = Following(CollectOrder, "dns_info", "idle")
    /\ UNCHANGED <<system, routing_table, interface_details, arp_table, gateway_info,
                   collects, printed, output, routes>>

CollectGatewayInfo ==
    /\ pc = "gateway_info"
    /\ \E outcome \in GatewaysOutcomes :
         LET call == get_gateway_info(outcome)
         IN  IF call.raises # ""
             THEN /\ pc' = "raised"
                  /\ UNCHANGED gateway_info
             ELSE /\ pc' = Following(CollectOrder, "gateway_info", "idle")
                  /\ gateway_info' = call.result
    /\ steps' = Append(steps, "gateway_info")
    /\ UNCHANGED <<system, routing_table, interface_details, arp_table, dns_info,
                   collects, ran, printed, output, routes>>

(***************************************************************************)
(* The presenter.  print(text) adds a text item to what was printed and    *)
(* print(table) a table item: how PrettyTable draws a table is the         *)
(* library's business, what the table holds is the program's.              *)
(***************************************************************************)
\* the width of every banner
BannerWidth == 80

PrintText(text) == [kind |-> "text", text |-> text]

PrintTable(field_names, rows) ==
    [kind |-> "table", field_names |-> field_names, align |-> Literal["l"], rows |-> rows]

\* c * n
RECURSIVE Repeat(_, _)
Repeat(c, n) ==
    IF n <= 0 THEN Literal[""]
    ELSE LET half == Repeat(c, n \div 2)
         IN  half \o half \o (IF n % 2 = 1 THEN c ELSE Literal[""])

\* str.center(width)
Center(s, width) ==
    IF Len(s) >= width THEN s
    ELSE LET marg == width - Len(s)
             left == (marg \div 2) + (IF marg % 2 = 1 /\ width % 2 = 1 THEN 1 ELSE 0)
         IN  Repeat(Literal[" "], left) \o s \o Repeat(Literal[" "], marg - left)

\* the three print calls that open a section
Banner(title) ==
    <<PrintText(Literal["\n"] \o Repeat(Literal["-"], BannerWidth)),
      PrintText(Center(title, BannerWidth)),
      PrintText(Repeat(Literal["-"], BannerWidth))>>

\* route.get(key, default)
RouteGet(route, key, default) == IF key \in DOMAIN route THEN route[key] ELSE default

display_routing_table(table) ==
    Banner(Literal["ROUTING TABLE"]) \o
    (IF table.type = "dict" /\ "error" \in DOMAIN table
     THEN <<PrintText(Literal["\nError: "] \o table.error)>>
     ELSE <<PrintTable(
              <<Literal["Destination"], Literal["Gateway"], Literal["Netmask"],
                Literal["Interface"], Literal["Metric/Flags"]>>,
              [i \in 1..Len(table.items) |->
                 LET route == table.items[i]
                 IN  <<RouteGet(route, "Destination", Literal["N/A"]),
                       RouteGet(route, "Gateway", Literal["N/A"]),
                       RouteGet(route, "Netmask", RouteGet(route, "Genmask", Literal["N/A"])),
                       RouteGet(route, "Interface", Literal["N/A"]),
                       RouteGet(route, "Metric", RouteGet(route, "Flags", Literal["N/A"]))>>])>>)

display_interfaces(details) ==
    Banner(Literal["NETWORK INTERFACES"]) \o
    (IF Len(details) = 0
     THEN <<PrintText(Literal["No interface information available"])>>
     ELSE <<PrintTable(
              <<Literal["Interface"], Literal["IP Address"], Literal["Netmask"],
                Literal["MAC Address"], Literal["Broadcast"]>>,
              [i \in 1..Len(details) |->
                 LET d == details[i].value
                 IN  <<details[i].key,
                       d.IP,
                       d.Netmask,
                       IF d.MAC = NoneValue \/ d.MAC = Literal[""] THEN Literal["N/A"] ELSE d.MAC,
                       RouteGet(d, "Broadcast", Literal["N/A"])>>])>>)

\* the rows display_gateways adds, one per family whose entry has two items
RECURSIVE GatewayRows(_, _)
GatewayRows(gateways, i) ==
    IF i > Len(gateways) THEN <<>>
    ELSE (IF Len(gateways[i].value) >= 2
          THEN <<<<IF gateways[i].key = "AF_INET" THEN Literal["IPv4"] ELSE Literal["IPv6"],
                   gateways[i].value[1],
                   gateways[i].value[2]>>>>
          ELSE <<>>) \o GatewayRows(gateways, i + 1)

display_gateways(gateways) ==
    Banner(Literal["DEFAULT GATEWAYS"]) \o
    (IF Len(gateways) = 0
     THEN <<PrintText(Literal["No gateway information available"])>>
     ELSE <<PrintTable(<<Literal["Type"], Literal["Gateway IP"], Literal["Interface"]>>,
                       GatewayRows(gateways, 1))>>)

display_arp_table(text) == Banner(Literal["ARP TABLE"]) \o <<PrintText(text)>>

display_dns_info(text) == Banner(Literal["DNS INFORMATION"]) \o <<PrintText(text)>>

\* the print calls display_all_info makes before its first section
Header ==
    <<PrintText(Literal["\n"] \o Repeat(Literal["="], BannerWidth)),
      PrintText(Center(Literal["NETWORK INFORMATION TOOL"], BannerWidth)),
      PrintText(Repeat(Literal["="], BannerWidth))>>

\* display_all_info calling display_gateways before display_interfaces
DisplayOrder_GatewaysFirst ==
    <<"display_routing_table", "display_gateways", "display_interfaces",
      "display_arp_table", "display_dns_info">>

\* the sections of display_all_info, in the order it calls them
DisplayOrder ==
    <<"display_routing_table", "display_interfaces", "display_gateways",
      "display_arp_table", "display_dns_info">>

(***************************************************************************)
(* display_all_info, one action per statement.  The process ends when it   *)
(* returns.                                                                *)
(***************************************************************************)
CallDisplayAllInfo ==
    /\ pc = "idle"
    /\ printed' = printed \o Header
    /\ pc' = DisplayOrder[1]
    /\ UNCHANGED <<object, collects, steps, ran, output, routes>>

DisplayRoutingTable ==
    /\ pc = "display_routing_table"
    /\ printed' = printed \o display_routing_table(routing_table)
    /\ pc' = Following(DisplayOrder, "display_routing_table", "done")
    /\ UNCHANGED <<object, collects, steps, ran, output, routes>>

DisplayInterfaces ==
    /\ pc = "display_interfaces"
    /\ printed' = printed \o display_interfaces(interface_details)
    /\ pc' = Following(DisplayOrder, "display_interfaces", "done")
    /\ UNCHANGED <<object, collects, steps, ran, output, routes>>

DisplayGateways ==
    /\ pc = "display_gateways"
    /\ printed' = printed \o display_gateways(gateway_info)
    /\ pc' = Following(DisplayOrder, "display_gateways", "done")
    /\ UNCHANGED <<object, collects, steps, ran, output, routes>>

DisplayArpTable ==
    /\ pc = "display_arp_table"
    /\ printed' = printed \o display_arp_table(arp_table)
    /\ pc' = Following(DisplayOrder, "display_arp_table", "done")
    /\ UNCHANGED <<object, collects, steps, ran, output, routes>>

DisplayDnsInfo ==
    /\ pc = "display_dns_info"
    /\ printed' = printed \o display_dns_info(dns_info)
    /\ pc' = Following(DisplayOrder, "display_dns_info", "done")
    /\ UNCHANGED <<object, collects, steps, ran, output, routes>>

(***************************************************************************)
(* The parsers called on their own: parse_windows_route and                *)
(* parse_unix_route are static methods, and a caller may hand them any     *)
(* text: here every text of up to MaxLines lines.                          *)
(***************************************************************************)
\* the lines a text is made of: the lines of the two commands' tables,
\* cut short, laid out with other whitespace (ASCII and not), written
\* with the digits of another script, and near misses of the prefixes, of
\* the whitespace and of the digits the parsers look for
RouteLines ==
    {Text(""),
     Text("0.0.0.0  0.0.0.0  192.168.1.1  eth0  25"),
     Text("0.0.0.0  0.0.0.0  192.168.1.1  eth0"),
     Text("  0.0.0.0\t0.0.0.0 \t192.168.1.1  192.168.1.100  25 \r"),
     Text("0.0.0.0/0  192.168.1.1  UGSc  en0  1500  lo0"),
     Text("default  10.0.0.1  UG  0  0  0  wlan0"),
     Text("default  10.0.0.1  UG"),
     Text("defaultroute  10.0.0.1  UG  0"),
     Text("192.168.1.0  0.0.0.0  255.255.255.0  U  0  0  0  eth0"),
     Text("192.168.1.0  0.0.0.0  255.255.255.0  U"),
     Text("\t10.0.0.0  10.0.0.1  255.0.0.0  UG  0"),
     Text("10.0.0  link#4  UCS  en0  !  lo0"),
     Text("Destination  Gateway  Genmask  Flags  MSS  Window  irtt  Iface"),
     \* tokens set apart by a vertical tab, a no-break space and an em space
     Text("0.0.0.0") \o <<11>> \o Text("0.0.0.0") \o <<160>> \o Text("192.168.1.1")
        \o <<8195>> \o Text("eth0 25"),
     \* a zero width space, which is no whitespace, between two tokens
     Text("0.0.0.0") \o <<8203>> \o Text("0.0.0.0 192.168.1.1 eth0 25"),
     \* a next line character in front, a file separator between two tokens
     \* and an ideographic space at the end
     <<133>> \o Text("default 10.0.0.1 UG") \o <<28>> \o Text("0") \o <<12288>>,
     \* a dotted quad in Arabic-Indic digits
     <<1633, 46, 1634, 46, 1635, 46, 1636>> \o Text(" 10.0.0.1 255.0.0.0 UG 0"),
     \* a superscript two, which is no decimal digit, as the fourth group
     Text("1.2.3.") \o <<178>> \o Text(" 10.0.0.1 255.0.0.0 UG 0")}

\* '\n'.join(lines)
RECURSIVE JoinLines(_)
JoinLines(lines) ==
    IF Len(lines) = 0 THEN Literal[""]
    ELSE IF Len(lines) = 1 THEN lines[1]
    ELSE lines[1] \o Literal["\n"] \o JoinLines(Tail(lines))

RouteTexts ==
    UNION {{JoinLines(lines) : lines \in [1..n -> RouteLines]} : n \in 0..MaxLines}

ParserInit ==
    /\ system \in {"Linux"}
    /\ interface_details = <<>>
    /\ routing_table = List(<<>>)
    /\ arp_table = Literal[""]
    /\ dns_info = Literal[""]
    /\ gateway_info = <<>>
    /\ pc = "parser_input"
    /\ collects = 0
    /\ steps = <<>>
    /\ ran = <<>>
    /\ printed = <<>>
    /\ output \in RouteTexts
    /\ routes = <<>>

ParseWindowsRoute ==
    /\ pc = "parser_input"
    /\ routes' = parse_windows_route(output)
    /\ pc' = "parse_windows_route"
    /\ UNCHANGED <<object, collects, steps, ran, printed, output>>

ParseUnixRoute ==
    /\ pc = "parser_input"
    /\ routes' = parse_unix_route(output)
    /\ pc' = "parse_unix_route"
    /\ UNCHANGED <<object, collects, steps, ran, printed, output>>

ParserNext ==
    \/ ParseWindowsRoute
    \/ ParseUnixRoute

ParserSpec == ParserInit /\ [][ParserNext]_vars

Next ==
    \/ CallCollectAllInfo
    \/ CollectRoutingTable
    \/ CollectInterfaceDetails
    \/ CollectArpTable
    \/ CollectDnsInfo
    \/ CollectGatewayInfo
    \/ CallDisplayAllInfo
    \/ DisplayRoutingTable
    \/ DisplayInterfaces
    \/ DisplayGateways
    \/ DisplayArpTable
    \/ DisplayDnsInfo

Spec == Init /\ [][Next]_vars

\* the statements display_all_info runs after its header
DisplaySections ==
    \/ DisplayRoutingTable
    \/ DisplayInterfaces
    \/ DisplayGateways
    \/ DisplayArpTable
    \/ DisplayDnsInfo

\* display_all_info, once called, runs on: it is one thread, and nothing
\* suspends it between two of its statements
FairSpec == Spec /\ WF_vars(DisplaySections)

(***************************************************************************)
(* What the claims speak of, stated on the text itself and not through     *)
(* the parsers' own splitting: the tokens of a line are found from the     *)
(* positions where a token starts.                                         *)
(***************************************************************************)
\* the positions where a token of the line starts
TokenStarts(line) ==
    {i \in 1..Len(line) :
        /\ ~IsSpace(Char(line, i))
        /\ i = 1 \/ IsSpace(Char(line, i - 1))}

TokenCount(line) == Cardinality(TokenStarts(line))

\* token[n] of the line, counted from 0
TokenAt(line, n) ==
    LET start == CHOOSE i \in TokenStarts(line) :
                     Cardinality({j \in TokenStarts(line) : j < i}) = n
        stop == CHOOSE j \in start..Len(line) :
                    /\ \A k \in start..j : ~IsSpace(Char(line, k))
                    /\ j = Len(line) \/ IsSpace(Char(line, j + 1))
    IN  SubSeq(line, start, stop)

\* the trimmed line starts with the prefix
TrimmedStartsWith(line, prefix) ==
    \E i \in 1..Len(line) :
        /\ \A k \in 1..(i - 1) : IsSpace(Char(line, k))
        /\ i + Len(prefix) - 1 <= Len(line)
        /\ SubSeq(line, i, i + Len(prefix) - 1) = prefix

\* the trimmed line starts with digits.digits.digits.digits
TrimmedStartsWithDottedQuad(line) ==
    LET digits(a, b) == a <= b /\ \A k \in a..b : Char(line, k) \in Digits
        dot(a) == Char(line, a) = Ord["."]
    IN  \E i \in 1..Len(line) :
          /\ \A k \in 1..(i - 1) : IsSpace(Char(line, k))
          /\ \E p1 \in (i + 1)..Len(line) :
               /\ dot(p1) /\ digits(i, p1 - 1)
               /\ \E p2 \in (p1 + 2)..Len(line) :
                    /\ dot(p2) /\ digits(p1 + 1, p2 - 1)
                    /\ \E p3 \in (p2 + 2)..(Len(line) - 1) :
                         /\ dot(p3) /\ digits(p2 + 1, p3 - 1)
                         /\ Char(line, p3 + 1) \in Digits

CaseA(line) ==
    TrimmedStartsWith(line, Literal["default"]) \/ TrimmedStartsWith(line, Literal["0.0.0.0"])

WindowsQualifies(line) == TrimmedStartsWith(line, Literal["0.0.0.0"]) /\ TokenCount(line) >= 5

UnixQualifies(line) ==
    \/ CaseA(line) /\ TokenCount(line) >= 4
    \/ ~CaseA(line) /\ TrimmedStartsWithDottedQuad(line) /\ TokenCount(line) >= 5

\* the lines of the text handed to the parser
Lines == SplitLines(output)

\* the positions in the text of the lines that qualify
WindowsQualifying == {i \in 1..Len(Lines) : WindowsQualifies(Lines[i])}

UnixQualifying == {i \in 1..Len(Lines) : UnixQualifies(Lines[i])}

\* the j-th smallest member of a set of positions
Nth(positions, j) ==
    CHOOSE i \in positions : Cardinality({k \in positions : k < i}) = j - 1

\* C3: the number of records a parser returns is the number of lines of the
\* text that satisfy its qualification predicate (Windows: trimmed line
\* starts with 0.0.0.0 and has at least 5 tokens; Unix: Case A prefix with at
\* least 4 tokens, or dotted quad outside Case A with at least 5 tokens).
C3_RecordCount ==
    /\ pc = "parse_windows_route" =>
         Len(routes) = Cardinality(WindowsQualifying)
    /\ pc = "parse_unix_route" =>
         Len(routes) = Cardinality(UnixQualifying)

\* a text with a qualifying line and a line of too few tokens, parsed
C3_Witness ==
    /\ pc = "parse_unix_route"
    /\ Len(routes) = 1
    /\ \E i \in 1..Len(Lines) : CaseA(Lines[i]) /\ TokenCount(Lines[i]) = 3

\* C4 as stated: the Unix parser turns the 7-token line
\* "default  10.0.0.1  UG  0  0  0  wlan0" into exactly one record:
\* destination default, gateway 10.0.0.1, genmask UG, flags 0, interface
\* wlan0.
C4_AsStated ==
    (pc = "parse_unix_route" /\ output = Text("default  10.0.0.1  UG  0  0  0  wlan0")) =>
        routes = <<[Destination |-> Text("default"),
                    Gateway     |-> Text("10.0.0.1"),
                    Genmask     |-> Text("UG"),
                    Flags       |-> Text("0"),
                    Interface   |-> Text("wlan0")]>>

\* C4 as amended: the Unix parser turns that line into exactly one record:
\* destination default, gateway 10.0.0.1, genmask UG, flags 0, and as
\* interface the token at index 5, which in this line is "0" (wlan0 is the
\* token at index 6).
C4_DefaultLine ==
    (pc = "parse_unix_route" /\ output = Text("default  10.0.0.1  UG  0  0  0  wlan0")) =>
        /\ TokenAt(output, 5) = Text("0")
        /\ TokenAt(output, 6) = Text("wlan0")
        /\ routes = <<[Destination |-> Text("default"),
                       Gateway     |-> Text("10.0.0.1"),
                       Genmask     |-> Text("UG"),
                       Flags       |-> Text("0"),
                       Interface   |-> Text("0")]>>

C4_Witness ==
    /\ pc = "parse_unix_route"
    /\ output = Text("default  10.0.0.1  UG  0  0  0  wlan0")
    /\ Len(routes) = 1

\* C5: the Windows parser returns one record per trimmed line that starts
\* with 0.0.0.0 and has at least 5 tokens, and no other; the record holds
\* tokens 0..4 as destination, mask, gateway, interface, metric; the line
\* "0.0.0.0  0.0.0.0  192.168.1.1  eth0  25" gives exactly that one record;
\* and no record has an empty metric.
C5_WindowsRecords ==
    pc = "parse_windows_route" =>
        LET q == WindowsQualifying
        IN  /\ Len(routes) = Cardinality(q)
            /\ \A j \in 1..Len(routes) :
                 LET line == Lines[Nth(q, j)]
                 IN  /\ routes[j] = [Destination |-> TokenAt(line, 0),
                                     Netmask     |-> TokenAt(line, 1),
                                     Gateway     |-> TokenAt(line, 2),
                                     Interface   |-> TokenAt(line, 3),
                                     Metric      |-> TokenAt(line, 4)]
                     /\ routes[j].Metric # Text("")
            /\ output = Text("0.0.0.0  0.0.0.0  192.168.1.1  eth0  25") =>
                 routes = <<[Destination |-> Text("0.0.0.0"),
                             Netmask     |-> Text("0.0.0.0"),
                             Gateway     |-> Text("192.168.1.1"),
                             Interface   |-> Text("eth0"),
                             Metric      |-> Text("25")]>>

C5_Witness ==
    /\ pc = "parse_windows_route"
    /\ output = Text("0.0.0.0  0.0.0.0  192.168.1.1  eth0  25")
    /\ Len(routes) = 1

\* the record a parser returns for one line handed to it alone
RecordOf(line) ==
    IF pc = "parse_windows_route" THEN parse_windows_route(line) ELSE parse_unix_route(line)

\* C8: the records of each parser follow the order of their lines in the
\* text, one record per line that gives a record, nothing dropped as a
\* duplicate and nothing sorted: the j-th record is the record of the j-th
\* such line.
C8_SourceOrder ==
    pc \in {"parse_windows_route", "parse_unix_route"} =>
        LET q == {i \in 1..Len(Lines) : RecordOf(Lines[i]) # <<>>}
        IN  /\ Len(routes) = Cardinality(q)
            /\ \A j \in 1..Len(routes) : <<routes[j]>> = RecordOf(Lines[Nth(q, j)])

\* two identical qualifying lines, parsed into two equal records
C8_Witness ==
    /\ pc = "parse_unix_route"
    /\ Len(Lines) = 2
    /\ Lines[1] = Lines[2]
    /\ Len(routes) = 2
    /\ routes[1] = routes[2]

\* the record of a Unix line of at least 4 tokens: tokens 0..3, and token 5
\* as the interface when the line has a 6th token
UnixRecord(line) ==
    [Destination |-> TokenAt(line, 0),
     Gateway     |-> TokenAt(line, 1),
     Genmask     |-> TokenAt(line, 2),
     Flags       |-> TokenAt(line, 3),
     Interface   |-> IF TokenCount(line) >= 6 THEN TokenAt(line, 5) ELSE Literal[""]]

\* what one line gives: Case A decides a line it matches, alone
UnixExpected(line) ==
    IF CaseA(line)
    THEN (IF TokenCount(line) >= 4 THEN <<UnixRecord(line)>> ELSE <<>>)
    ELSE IF TrimmedStartsWithDottedQuad(line) /\ TokenCount(line) >= 5
    THEN <<UnixRecord(line)>>
    ELSE <<>>

RECURSIVE UnixExpectedFrom(_)
UnixExpectedFrom(i) ==
    IF i > Len(Lines) THEN <<>> ELSE UnixExpected(Lines[i]) \o UnixExpectedFrom(i + 1)

\* C10: in the Unix parser a line is handled by at most one case, Case A
\* first: a trimmed line starting with default or 0.0.0.0 gives one record
\* iff it has at least 4 tokens and is not looked at again by Case B; any
\* other line starting with a dotted quad gives a record iff it has at
\* least 5 tokens, holding tokens 0..3 as destination, gateway, genmask,
\* flags and token 5 as interface when there is a 6th token, else "".
C10_OneCasePerLine ==
    pc = "parse_unix_route" => routes = UnixExpectedFrom(1)

\* a Case A line that also starts with a dotted quad and has 5 tokens, and
\* a Case B line of exactly 5 tokens, parsed
C10_Witness ==
    /\ pc = "parse_unix_route"
    /\ Len(routes) = 2
    /\ \E i \in 1..Len(Lines) :
         CaseA(Lines[i]) /\ TrimmedStartsWithDottedQuad(Lines[i]) /\ TokenCount(Lines[i]) >= 5
    /\ \E i \in 1..Len(Lines) :
         ~CaseA(Lines[i]) /\ TrimmedStartsWithDottedQuad(Lines[i]) /\ TokenCount(Lines[i]) = 5
    /\ routes[2].Interface = Literal[""]

(***************************************************************************)
(* The claims about collection and display.                                *)
(***************************************************************************)
Supported == {"Windows", "Linux", "Darwin"}

RouteCommands == {Literal["route print"], Literal["netstat -rn"]}

ArpCommands == {Literal["arp -a"], Literal["arp -n"]}

\* C1: on a platform other than Windows, Linux and Darwin,
\* get_routing_table returns {error: "Unsupported operating system"} and
\* runs no command: when it has returned no command has been run, and no
\* route command is run later in the call.
C1_UnsupportedPlatform ==
    (system \notin Supported /\ Len(steps) >= 1) =>
        /\ routing_table = ErrorDict(Literal["Unsupported operating system"])
        /\ steps = <<"routing_table">> => ran = <<>>
        /\ \A i \in 1..Len(ran) : ran[i].cmd \notin RouteCommands

C1_Witness ==
    /\ system = "FreeBSD"
    /\ steps = <<"routing_table">>
    /\ pc = "interface_details"

\* C2: collect_all_info runs its five steps in the order routing table,
\* interfaces, ARP, DNS, gateways, and whatever fails, all five steps are
\* run and no exception leaves collect_all_info.
C2_FailuresContained ==
    /\ Len(steps) <= Len(CollectOrder)
    /\ \A i \in 1..Len(steps) : steps[i] = CollectOrder[i]
    /\ pc # "raised"
    /\ (pc = "idle" /\ collects >= 1) => steps = CollectOrder

\* C6: on a supported platform a get_routing_table call runs exactly one
\* command, route print on Windows and netstat -rn on Linux and Darwin;
\* its result is the matching parser's output on the command's text when
\* the command succeeded and {error: message} when it failed, and the
\* call returns.  A later call runs its own command.
C6_OneCommandPerCall ==
    (system \in Supported /\ steps = <<"routing_table">>) =>
        /\ Len(ran) = 1
        /\ ran[1].cmd = (IF system = "Windows" THEN Literal["route print"]
                         ELSE Literal["netstat -rn"])
        /\ ran[1].ok =>
             routing_table = List(IF system = "Windows"
                                  THEN parse_windows_route(ran[1].text)
                                  ELSE parse_unix_route(ran[1].text))
        /\ ~ran[1].ok =>
             /\ routing_table = ErrorDict(ran[1].text)
             /\ \E status \in FailStatuses :
                  ran[1].text = CalledProcessError(ran[1].cmd, status)
        /\ pc = "interface_details"

\* the second call on one object: its command was killed by SIGTERM, the
\* result is the error
C6_Witness ==
    /\ collects = 2
    /\ system = "Darwin"
    /\ steps = <<"routing_table">>
    /\ ~ran[1].ok
    /\ routing_table =
         ErrorDict(Text("Command 'netstat -rn' died with <Signals.SIGTERM: 15>."))

\* in the current collect_all_info call the route command succeeded and the
\* ARP command failed
ArpFailedRouteSucceeded ==
    /\ Len(ran) >= 2
    /\ ran[1].cmd \in RouteCommands /\ ran[1].ok
    /\ ran[2].cmd \in ArpCommands /\ ~ran[2].ok

\* what was printed right after the banner of the section with this title
SectionBody(title) ==
    {printed[k + 2] : k \in {k \in 1..(Len(printed) - 2) :
                               printed[k] = PrintText(Center(title, BannerWidth))}}

\* the routing-table section was printed, with a table of one row per route
RoutesShown ==
    \E item \in SectionBody(Literal["ROUTING TABLE"]) :
        item.kind = "table" /\ Len(item.rows) = Len(routing_table.items)

\* the ARP section was printed, with the ARP error string
ArpErrorShown ==
    SectionBody(Literal["ARP TABLE"]) =
        {PrintText(Literal["Error getting ARP table: "] \o ran[2].text)}

\* C7: when the ARP command fails and the route command succeeds, the
\* snapshot holds the parsed routing table, not an error, and an ARP error
\* string; and display_all_info, once started, comes to its end having
\* printed the routing-table section and the ARP section.
C7_PartialFailure ==
    /\ [](ArpFailedRouteSucceeded =>
            /\ routing_table.type = "list"
            /\ routing_table.items = (IF ran[1].cmd = Literal["route print"]
                                      THEN parse_windows_route(ran[1].text)
                                      ELSE parse_unix_route(ran[1].text))
            /\ arp_table = Literal["Error getting ARP table: "] \o ran[2].text)
    /\ (ArpFailedRouteSucceeded /\ pc = "display_routing_table")
         ~> (/\ pc = "done"
             /\ ArpFailedRouteSucceeded
             /\ RoutesShown
             /\ ArpErrorShown)

C7_Witness ==
    /\ ArpFailedRouteSucceeded
    /\ pc = "done"
    /\ Len(routing_table.items) >= 1
    /\ ArpErrorShown

SectionTitles ==
    <<Literal["ROUTING TABLE"], Literal["NETWORK INTERFACES"], Literal["DEFAULT GATEWAYS"],
      Literal["ARP TABLE"], Literal["DNS INFORMATION"]>>

IsTitle(item) ==
    /\ item.kind = "text"
    /\ \E i \in 1..Len(SectionTitles) : item.text = Center(SectionTitles[i], BannerWidth)

\* the routing-table section was printed, with the error message
RouteErrorShown ==
    SectionBody(Literal["ROUTING TABLE"]) =
        {PrintText(Literal["\nError: "] \o routing_table.error)}

\* C9: display_all_info prints the sections in the order routing table,
\* interfaces, gateways, ARP, DNS; when the routing result is an error, the
\* error message is printed where the routing table would be, no routing
\* table is printed, and the four later sections still follow in that order.
C9_SectionOrder ==
    LET titles == SelectSeq(printed, IsTitle)
    IN  /\ Len(titles) <= Len(SectionTitles)
        /\ \A i \in 1..Len(titles) :
             titles[i] = PrintText(Center(SectionTitles[i], BannerWidth))
        /\ pc = "done" => Len(titles) = Len(SectionTitles)
        /\ (routing_table.type = "dict" /\ Len(titles) >= 1) =>
             /\ RouteErrorShown
             /\ \A k \in 1..Len(printed) :
                  printed[k].kind = "table" => printed[k].field_names[1] # Literal["Destination"]

C9_Witness ==
    /\ pc = "done"
    /\ routing_table.type = "dict"
    /\ RouteErrorShown
    /\ SectionBody(Literal["DNS INFORMATION"]) = {PrintText(dns_info)}

====

